---- MODULE Spec2Model ----
(***************************************************************************)
(* FitFinder outfit scoring engine (lib/outfitScoring, lib/types,          *)
(* lib/constants).                                                         *)
(*                                                                         *)
(* Numbers.  The engine computes with decimal fractions.  A scorer result  *)
(* x is represented by the integer x * One, a weight w by the integer      *)
(* w * 100 and an aggregate score s by the integer s * One * 100, so that  *)
(* every sum, product and quotient the code forms is an exact integer      *)
(* here.  The code computes the same expressions in IEEE doubles; for the  *)
(* values the properties name (0.5, 0.65, 1.0) the double results are the  *)
(* doubles of those decimals, and the color harmony 0.3 + 0.15 is the      *)
(* double next below 0.45.                                                 *)
(*                                                                         *)
(* Absent values.  null / undefined items are the record Null; a missing   *)
(* or empty string (both falsy in the code) is ""; a null weather or       *)
(* occasion is the string "null"; a missing rating is NoRating.            *)
(***************************************************************************)
EXTENDS Integers, Sequences, FiniteSets, TLC

(***************************************************************************)
(* Bounds of the model                                                     *)
(***************************************************************************)
MaxItems  == 5   \* items in a wardrobe passed to generateScoredOutfits
MaxCount  == 2   \* largest count passed to generateScoredOutfits
MaxLiked  == 1   \* liked combinations in a context passed to scoreOutfit
MaxRecent == 1   \* recent wears in a context passed to scoreOutfit
MaxRated  == 2   \* rated wears in a context passed to scoreOutfit
MaxTempSpan == 3 \* degrees below the lowest and above the highest threshold

\* 1.0 as a scorer result: divisible by 10 (ratings), by 1..3 (slots of a
\* wear), by 20 (steps of 0.05) and, after those, by every match count up to 6.
One == 10 * 6 * 60

Null == [null |-> TRUE]
NoRating == 0
NoWeather == "null"
NoOccasion == "null"

Min(a, b) == IF a < b THEN a ELSE b
Max(a, b) == IF a > b THEN a ELSE b

RECURSIVE SeqSum(_)
SeqSum(s) == IF s = <<>> THEN 0 ELSE Head(s) + SeqSum(Tail(s))

SeqsUpTo(S, n) == UNION { [1..k -> S] : k \in 0..n }

(***************************************************************************)
(* State                                                                   *)
(***************************************************************************)
VARIABLES
  weight,      \* the module-level WEIGHT object
  pc,          \* position of the running call
  items,       \* generateScoredOutfits: the wardrobe argument
  ctx,         \* the ScoringContext argument
  count,       \* generateScoredOutfits: the count argument
  i,           \* generateScoredOutfits: loop counter
  seen,        \* generateScoredOutfits: keys of the combinations drawn so far
  candidates,  \* generateScoredOutfits: the kept candidates
  result,      \* generateScoredOutfits: the returned list
  outfit,      \* scoreOutfit: the top, outerwear, bottom, shoes arguments
  scored,      \* scoreOutfit: the five scorer results and the returned value
  wx,          \* getTemperatureCategory: the temperatures and their categories
  ui,          \* OutfitGenerator: the component's state and pickOutfit's closure
  drawn        \* history of the running call: the combinations drawn so far

vars == <<weight, pc, items, ctx, count, i, seen, candidates, result, outfit, scored,
          wx, ui, drawn>>

(***************************************************************************)
(* Taxonomy                                                                *)
(***************************************************************************)
TemperatureCategories == {"cold", "cool", "warm", "hot"}
Occasions == {"Casual", "Work", "Date", "Active"}

\* mutant: Hoodie is filed under Outerwear
typeToSectionHoodieOuterwear ==
  [t \in {"T-Shirt", "Long Sleeve Shirt", "Polo", "Tank Top",
          "Button-Up Shirt"} |-> "Tops"] @@
  [t \in {"Jacket", "Sweatshirt", "Crewneck", "Sweater", "Hoodie"} |-> "Outerwear"] @@
  [t \in {"Jeans", "Pants", "Shorts", "Sweats", "Skirt", "Leggings"} |-> "Bottoms"] @@
  [t \in {"Shoes"} |-> "Shoes"]

typeToSection ==
  [t \in {"T-Shirt", "Long Sleeve Shirt", "Polo", "Tank Top",
          "Button-Up Shirt", "Hoodie"} |-> "Tops"] @@
  [t \in {"Jacket", "Sweatshirt", "Crewneck", "Sweater"} |-> "Outerwear"] @@
  [t \in {"Jeans", "Pants", "Shorts", "Sweats", "Skirt", "Leggings"} |-> "Bottoms"] @@
  [t \in {"Shoes"} |-> "Shoes"]

\* mutant: a type the table lacks is filed under Tops
SectionOfUnknownAsTops(type) ==
  IF type \in DOMAIN typeToSection THEN typeToSection[type] ELSE "Tops"

\* typeToSection[type], undefined ("none") for a type the table lacks
SectionOf(type) ==
  IF type \in DOMAIN typeToSection THEN typeToSection[type] ELSE "none"

clothingWeatherRules ==
  ("Tank Top"          :> [blockedIn |-> {"cold", "cool"}, suggestedIn |-> {"hot"}]) @@
  ("T-Shirt"           :> [blockedIn |-> {"cold"}, suggestedIn |-> {"warm", "hot"}]) @@
  ("Long Sleeve Shirt" :> [blockedIn |-> {}, suggestedIn |-> {"cool", "warm"}]) @@
  ("Polo"              :> [blockedIn |-> {"cold"}, suggestedIn |-> {"warm"}]) @@
  ("Button-Up Shirt"   :> [blockedIn |-> {}, suggestedIn |-> {"cool", "warm"}]) @@
  ("Hoodie"            :> [blockedIn |-> {}, suggestedIn |-> {"cold", "cool"}]) @@
  ("Jacket"            :> [blockedIn |-> {"hot"}, suggestedIn |-> {"cold", "cool"}]) @@
  ("Sweatshirt"        :> [blockedIn |-> {"hot"}, suggestedIn |-> {"cold", "cool"}]) @@
  ("Crewneck"          :> [blockedIn |-> {"hot"}, suggestedIn |-> {"cold", "cool"}]) @@
  ("Sweater"           :> [blockedIn |-> {"hot"}, suggestedIn |-> {"cold", "cool"}]) @@
  ("Shorts"            :> [blockedIn |-> {"cold"}, suggestedIn |-> {"hot", "warm"}]) @@
  ("Skirt"             :> [blockedIn |-> {"cold"}, suggestedIn |-> {"warm", "hot"}]) @@
  ("Jeans"             :> [blockedIn |-> {}, suggestedIn |-> {"cool", "warm"}]) @@
  ("Pants"             :> [blockedIn |-> {}, suggestedIn |-> {"cold", "cool", "warm"}]) @@
  ("Sweats"            :> [blockedIn |-> {"hot"}, suggestedIn |-> {"cold", "cool"}]) @@
  ("Leggings"          :> [blockedIn |-> {}, suggestedIn |-> {"cold", "cool", "warm"}])

isClothingAppropriateForWeather(clothingType, temperatureCategory) ==
  IF clothingType \notin DOMAIN clothingWeatherRules THEN TRUE
  ELSE temperatureCategory \notin clothingWeatherRules[clothingType].blockedIn

isClothingSuggestedForWeather(clothingType, temperatureCategory) ==
  IF clothingType \notin DOMAIN clothingWeatherRules THEN FALSE
  ELSE temperatureCategory \in clothingWeatherRules[clothingType].suggestedIn

isOuterwearRequired(temperatureCategory) == temperatureCategory = "cold"

\* mutant: outerwear is suggested when it is cold only
isOuterwearSuggestedColdOnly(temperatureCategory) == temperatureCategory = "cold"

isOuterwearSuggested(temperatureCategory) ==
  temperatureCategory = "cold" \/ temperatureCategory = "cool"

occasionRules ==
  ("Casual" :> [tops      |-> {"T-Shirt", "Long Sleeve Shirt", "Polo", "Tank Top", "Hoodie"},
                bottoms   |-> {"Jeans", "Pants", "Shorts", "Sweats", "Leggings"},
                outerwear |-> {"Jacket", "Sweatshirt", "Crewneck", "Sweater"},
                shoes     |-> {"Shoes"}]) @@
  ("Work"   :> [tops      |-> {"Long Sleeve Shirt", "Polo", "Button-Up Shirt"},
                bottoms   |-> {"Jeans", "Pants", "Skirt"},
                outerwear |-> {"Sweater", "Crewneck"},
                shoes     |-> {"Shoes"}]) @@
  ("Date"   :> [tops      |-> {"Long Sleeve Shirt", "Polo", "Button-Up Shirt"},
                bottoms   |-> {"Jeans", "Pants", "Skirt"},
                outerwear |-> {"Jacket", "Sweater"},
                shoes     |-> {"Shoes"}]) @@
  ("Active" :> [tops      |-> {"T-Shirt", "Tank Top", "Hoodie"},
                bottoms   |-> {"Shorts", "Sweats", "Leggings"},
                outerwear |-> {"Sweatshirt", "Jacket"},
                shoes     |-> {"Shoes"}])

(***************************************************************************)
(* Strings                                                                 *)
(***************************************************************************)
\* String.prototype.toLowerCase on the color names of the model
toLowerCase(s) ==
  CASE s = "Blue"  -> "blue"
    [] s = "BLACK" -> "black"
    [] s = "Black" -> "black"
    [] OTHER       -> s

\* colors[0]?.toLowerCase(): "" when the item has no color
PrimaryColor(item) ==
  IF Len(item.colors) = 0 THEN "" ELSE toLowerCase(item.colors[1])

(***************************************************************************)
(* Weights, as hundredths                                                  *)
(***************************************************************************)
\* mutant: the comfort weight raised to 0.15
WEIGHT_Skewed ==
  [COLOR_HARMONY |-> 30, WEATHER |-> 25, VARIETY |-> 20, OCCASION |-> 15, COMFORT |-> 15]

WEIGHT ==
  [COLOR_HARMONY |-> 30, WEATHER |-> 25, VARIETY |-> 20, OCCASION |-> 15, COMFORT |-> 10]

(***************************************************************************)
(* Scoring functions                                                       *)
(***************************************************************************)
\* mutant: a liked combination also matches with its colors exchanged
IsLikedPairEitherOrder(liked, a, b) ==
  \E k \in 1..Len(liked) :
     \/ toLowerCase(liked[k].topColor) = a /\ toLowerCase(liked[k].bottomColor) = b
     \/ toLowerCase(liked[k].topColor) = b /\ toLowerCase(liked[k].bottomColor) = a

IsLikedPair(liked, a, b) ==
  \E k \in 1..Len(liked) :
     toLowerCase(liked[k].topColor) = a /\ toLowerCase(liked[k].bottomColor) = b

\* mutant: the outerwear bonus is added without the cap
colorHarmonyScoreNoCap(top, bottom, outerwear, liked) ==
  IF Len(liked) = 0 THEN One \div 2
  ELSE
    LET topColor    == PrimaryColor(top)
        bottomColor == PrimaryColor(bottom)
    IN IF topColor = "" \/ bottomColor = "" THEN (3 * One) \div 10
       ELSE
         LET base == IF IsLikedPair(liked, topColor, bottomColor)
                     THEN One ELSE (3 * One) \div 10
             owTopMatch ==
               /\ outerwear # Null
               /\ Len(outerwear.colors) > 0
               /\ outerwear.colors[1] # ""
               /\ IsLikedPair(liked, toLowerCase(outerwear.colors[1]), topColor)
         IN IF owTopMatch THEN base + (15 * One) \div 100 ELSE base

colorHarmonyScore(top, bottom, outerwear, liked) ==
  IF Len(liked) = 0 THEN One \div 2
  ELSE
    LET topColor    == PrimaryColor(top)
        bottomColor == PrimaryColor(bottom)
    IN IF topColor = "" \/ bottomColor = "" THEN (3 * One) \div 10
       ELSE
         LET base == IF IsLikedPair(liked, topColor, bottomColor)
                     THEN One ELSE (3 * One) \div 10
             owTopMatch ==
               /\ outerwear # Null
               /\ Len(outerwear.colors) > 0
               /\ outerwear.colors[1] # ""
               /\ IsLikedPair(liked, toLowerCase(outerwear.colors[1]), topColor)
         IN IF owTopMatch THEN Min(One, base + (15 * One) \div 100) ELSE base

\* [top, bottom, outerwear].filter(Boolean)
PresentItems(top, bottom, outerwear) ==
  IF outerwear = Null THEN <<top, bottom>> ELSE <<top, bottom, outerwear>>

\* mutant: missing outerwear on a cold day costs 0.5
weatherScoreHeavyPenalty(top, bottom, outerwear, weather) ==
  IF weather = NoWeather THEN One \div 2
  ELSE
    LET present == PresentItems(top, bottom, outerwear)
        blocked == \E k \in 1..Len(present) :
                      ~isClothingAppropriateForWeather(present[k].type, weather)
        suggested == Len(SelectSeq(present,
                        LAMBDA it : isClothingSuggestedForWeather(it.type, weather)))
        s0 == One \div 2 + suggested * ((15 * One) \div 100)
        s1 == IF isOuterwearRequired(weather) /\ outerwear = Null
              THEN s0 - One \div 2 ELSE s0
        s2 == IF isOuterwearSuggested(weather) /\ outerwear # Null
              THEN s1 + One \div 10 ELSE s1
        s3 == IF weather = "hot" /\ outerwear # Null
              THEN s2 - (2 * One) \div 10 ELSE s2
    IN IF blocked THEN 0 ELSE Max(0, Min(One, s3))

\* mutant: the result is not capped at 1
weatherScoreNoClamp(top, bottom, outerwear, weather) ==
  IF weather = NoWeather THEN One \div 2
  ELSE
    LET present == PresentItems(top, bottom, outerwear)
        blocked == \E k \in 1..Len(present) :
                      ~isClothingAppropriateForWeather(present[k].type, weather)
        suggested == Len(SelectSeq(present,
                        LAMBDA it : isClothingSuggestedForWeather(it.type, weather)))
        s0 == One \div 2 + suggested * ((15 * One) \div 100)
        s1 == IF isOuterwearRequired(weather) /\ outerwear = Null
              THEN s0 - (3 * One) \div 10 ELSE s0
        s2 == IF isOuterwearSuggested(weather) /\ outerwear # Null
              THEN s1 + One \div 10 ELSE s1
        s3 == IF weather = "hot" /\ outerwear # Null
              THEN s2 - (2 * One) \div 10 ELSE s2
    IN IF blocked THEN 0 ELSE Max(0, s3)

\* mutant: no hard filter, a blocked item only misses the suggestion bonus
weatherScoreNoFilter(top, bottom, outerwear, weather) ==
  IF weather = NoWeather THEN One \div 2
  ELSE
    LET present == PresentItems(top, bottom, outerwear)
        suggested == Len(SelectSeq(present,
                        LAMBDA it : isClothingSuggestedForWeather(it.type, weather)))
        s0 == One \div 2 + suggested * ((15 * One) \div 100)
        s1 == IF isOuterwearRequired(weather) /\ outerwear = Null
              THEN s0 - (3 * One) \div 10 ELSE s0
        s2 == IF isOuterwearSuggested(weather) /\ outerwear # Null
              THEN s1 + One \div 10 ELSE s1
        s3 == IF weather = "hot" /\ outerwear # Null
              THEN s2 - (2 * One) \div 10 ELSE s2
    IN Max(0, Min(One, s3))

weatherScore(top, bottom, outerwear, weather) ==
  IF weather = NoWeather THEN One \div 2
  ELSE
    LET present == PresentItems(top, bottom, outerwear)
        blocked == \E k \in 1..Len(present) :
                      ~isClothingAppropriateForWeather(present[k].type, weather)
        suggested == Len(SelectSeq(present,
                        LAMBDA it : isClothingSuggestedForWeather(it.type, weather)))
        s0 == One \div 2 + suggested * ((15 * One) \div 100)
        s1 == IF isOuterwearRequired(weather) /\ outerwear = Null
              THEN s0 - (3 * One) \div 10 ELSE s0
        s2 == IF isOuterwearSuggested(weather) /\ outerwear # Null
              THEN s1 + One \div 10 ELSE s1
        s3 == IF weather = "hot" /\ outerwear # Null
              THEN s2 - (2 * One) \div 10 ELSE s2
    IN IF blocked THEN 0 ELSE Max(0, Min(One, s3))

\* mutant: the outerwear of a wear is not recorded
WearIdsNoOuterwear(w) ==
  {x \in {w.top_id, w.bottom_id, w.shoes_id} : x # ""}

\* the ids of a wear that varietyScore adds to recentIds
WearIdsAll(w) ==
  {x \in {w.top_id, w.bottom_id, w.shoes_id, w.outerwear_id} : x # ""}

\* mutant: an empty history counts as no overlap instead of neutral
varietyScoreNoNeutral(top, bottom, shoes, outerwear, recentWears) ==
  LET itemIds == SelectSeq(
                   <<top.id, bottom.id, shoes.id,
                     IF outerwear = Null THEN "" ELSE outerwear.id>>,
                   LAMBDA x : x # "")
      recentIds == UNION { WearIdsAll(recentWears[k]) : k \in 1..Len(recentWears) }
      overlap == Len(SelectSeq(itemIds, LAMBDA x : x \in recentIds))
  IN Max(0, One - overlap * (One \div 4))

varietyScore(top, bottom, shoes, outerwear, recentWears) ==
  IF Len(recentWears) = 0 THEN One \div 2
  ELSE
    LET itemIds == SelectSeq(
                     <<top.id, bottom.id, shoes.id,
                       IF outerwear = Null THEN "" ELSE outerwear.id>>,
                     LAMBDA x : x # "")
        recentIds == UNION { WearIdsAll(recentWears[k]) : k \in 1..Len(recentWears) }
        overlap == Len(SelectSeq(itemIds, LAMBDA x : x \in recentIds))
    IN Max(0, One - overlap * (One \div 4))

\* mutant: the outerwear check is counted also when there is no outerwear
occasionScoreAlwaysThree(top, bottom, outerwear, occasion) ==
  IF occasion = NoOccasion THEN One \div 2
  ELSE
    LET rules == occasionRules[occasion]
        topOk == SectionOf(top.type) = "Tops" /\ top.type \in rules.tops
        botOk == bottom.type \in rules.bottoms
        owOk  == outerwear # Null /\ outerwear.type \in rules.outerwear
        score == (IF topOk THEN 1 ELSE 0) + (IF botOk THEN 1 ELSE 0)
                 + (IF owOk THEN 1 ELSE 0)
        checks == 3
    IN IF checks > 0 THEN (score * One) \div checks ELSE One \div 2

occasionScore(top, bottom, outerwear, occasion) ==
  IF occasion = NoOccasion THEN One \div 2
  ELSE
    LET rules == occasionRules[occasion]
        topOk == SectionOf(top.type) = "Tops" /\ top.type \in rules.tops
        botOk == bottom.type \in rules.bottoms
        owOk  == outerwear # Null /\ outerwear.type \in rules.outerwear
        score == (IF topOk THEN 1 ELSE 0) + (IF botOk THEN 1 ELSE 0)
                 + (IF owOk THEN 1 ELSE 0)
        checks == IF outerwear # Null THEN 3 ELSE 2
    IN IF checks > 0 THEN (score * One) \div checks ELSE One \div 2

\* mutant: the outerwear of the wear is one of its compared slots
WearIdsWithOuterwear(wear) ==
  SelectSeq(<<wear.top_id, wear.bottom_id, wear.shoes_id, wear.outerwear_id>>,
            LAMBDA x : x # "")

\* [wear.top_id, wear.bottom_id, wear.shoes_id].filter(Boolean)
WearIds(wear) ==
  SelectSeq(<<wear.top_id, wear.bottom_id, wear.shoes_id>>, LAMBDA x : x # "")

\* mutant: the overall rating is preferred to the comfort rating
WearRatingOverallFirst(wear) ==
  IF wear.rating # NoRating THEN wear.rating
  ELSE IF wear.comfort_rating # NoRating THEN wear.comfort_rating
  ELSE 5

\* comfort_rating ?? rating ?? 5
WearRating(wear) ==
  IF wear.comfort_rating # NoRating THEN wear.comfort_rating
  ELSE IF wear.rating # NoRating THEN wear.rating
  ELSE 5

ComfortOverlap(top, bottom, shoes, wear) ==
  Len(SelectSeq(WearIds(wear), LAMBDA x : x \in {top.id, bottom.id, shoes.id}))

\* rating * (overlap / wearIds.length) of one matching wear
ComfortTerm(top, bottom, shoes, wear) ==
  (((WearRating(wear) * One) \div 10) * ComfortOverlap(top, bottom, shoes, wear))
     \div Len(WearIds(wear))

comfortScore(top, bottom, shoes, ratedOutfits) ==
  IF Len(ratedOutfits) = 0 THEN One \div 2
  ELSE
    LET matching == SelectSeq(ratedOutfits,
                       LAMBDA w : ComfortOverlap(top, bottom, shoes, w) > 0)
        totalRating == SeqSum([k \in 1..Len(matching) |->
                                 ComfortTerm(top, bottom, shoes, matching[k])])
        matchCount == Len(matching)
    IN IF matchCount > 0 THEN totalRating \div matchCount ELSE One \div 2

(***************************************************************************)
(* Main scoring                                                            *)
(***************************************************************************)
\* mutant: the comfort term is left out of the sum
scoreOutfitNoComfort(top, outerwear, bottom, shoes, c) ==
  LET ch == colorHarmonyScore(top, bottom, outerwear, c.likedCombinations)
              * weight.COLOR_HARMONY
      ws == weatherScore(top, bottom, outerwear, c.weather) * weight.WEATHER
      vs == varietyScore(top, bottom, shoes, outerwear, c.recentWears)
              * weight.VARIETY
      os == occasionScore(top, bottom, outerwear, c.occasion) * weight.OCCASION
  IN IF ws = 0 /\ c.weather # NoWeather THEN 0
     ELSE ch + ws + vs + os

scoreOutfit(top, outerwear, bottom, shoes, c) ==
  LET ch == colorHarmonyScore(top, bottom, outerwear, c.likedCombinations)
              * weight.COLOR_HARMONY
      ws == weatherScore(top, bottom, outerwear, c.weather) * weight.WEATHER
      vs == varietyScore(top, bottom, shoes, outerwear, c.recentWears)
              * weight.VARIETY
      os == occasionScore(top, bottom, outerwear, c.occasion) * weight.OCCASION
      cs == comfortScore(top, bottom, shoes, c.ratedOutfits) * weight.COMFORT
  IN IF ws = 0 /\ c.weather # NoWeather THEN 0
     ELSE ch + ws + vs + os + cs


(***************************************************************************)
(* Inputs                                                                  *)
(***************************************************************************)
Item(id, type, colors) == [id |-> id, type |-> type, colors |-> colors]

T1 == Item("t1", "T-Shirt", <<"blue", "white">>)
T2 == Item("t2", "Hoodie", <<"Black">>)
T3 == Item("t3", "Tank Top", <<>>)
B1 == Item("b1", "Jeans", <<"black">>)
B2 == Item("b2", "Shorts", <<>>)
B3 == Item("b3", "Sweats", <<"Blue">>)
S1 == Item("s1", "Shoes", <<"white">>)
S2 == Item("s2", "Shoes", <<>>)
O1 == Item("o1", "Jacket", <<"BLACK">>)
X1 == Item("x1", "Hat", <<"red">>)

Wear(t, b, s, o, r, cr) ==
  [top_id |-> t, bottom_id |-> b, shoes_id |-> s, outerwear_id |-> o,
   rating |-> r, comfort_rating |-> cr]

W1 == Wear("t1", "b1", "s1", "o1", 10, NoRating)
W2 == Wear("", "b2", "", "o1", 10, 1)
W3 == Wear("t2", "b1", "", "", NoRating, NoRating)

Liked(t, b) == [topColor |-> t, bottomColor |-> b]
L1 == Liked("blue", "black")
L2 == Liked("Black", "Blue")
L3 == Liked("black", "black")

Context(l, w, r, o, ro) ==
  [likedCombinations |-> l, weather |-> w, recentWears |-> r, occasion |-> o,
   ratedOutfits |-> ro]

\* wardrobes, contexts and counts handed to generateScoredOutfits
ItemUniverse == {T1, T2, B1, S1, O1, X1}
Wardrobes == {w \in SUBSET ItemUniverse : Cardinality(w) <= MaxItems}
GenContexts ==
  { Context(l, w, r, o, ro) :
      l \in {<<>>, <<L1>>},
      w \in TemperatureCategories \cup {NoWeather},
      r \in {<<>>, <<W1>>},
      o \in {NoOccasion, "Work"},
      ro \in {<<>>, <<W1>>} }
Counts == 1..MaxCount

\* outfits and contexts handed to scoreOutfit: every weather and occasion
\* with short histories, and the longer histories with nothing else set
Outfits ==
  { [top |-> t, outerwear |-> o, bottom |-> b, shoes |-> s] :
      t \in {T1, T3, O1, X1}, o \in {Null, O1, T2},
      b \in {B1, B2, B3}, s \in {S1, S2} }
ScoreContexts ==
  { Context(l, w, r, o, ro) :
      l \in SeqsUpTo({L1, L2, L3}, MaxLiked),
      w \in TemperatureCategories \cup {NoWeather},
      r \in {<<>>, <<W1>>},
      o \in Occasions \cup {NoOccasion},
      ro \in {<<>>, <<W1>>} }
  \cup
  { Context(<<>>, NoWeather, r, NoOccasion, ro) :
      r \in SeqsUpTo({W1, W2}, MaxRecent),
      ro \in SeqsUpTo({W1, W2, W3}, MaxRated) }

NoContext == Context(<<>>, NoWeather, <<>>, NoOccasion, <<>>)

(***************************************************************************)
(* Generation                                                              *)
(***************************************************************************)
\* items.filter((i) => typeToSection[i.type] === section); the wardrobe is a
\* set here: the order of the list only decides which index a draw picks
Partition(its, section) == {it \in its : SectionOf(it.type) = section}

tops           == Partition(items, "Tops")
outerwearItems == Partition(items, "Outerwear")
bottoms        == Partition(items, "Bottoms")
shoesItems     == Partition(items, "Shoes")

MAX_COMBOS == 500

maxCombos ==
  Min(Cardinality(tops) * Cardinality(bottoms) * Cardinality(shoesItems)
        * (Cardinality(outerwearItems) + 1),
      MAX_COMBOS)

\* `${top.id}-${outerwear?.id ?? 'none'}-${bottom.id}-${shoes.id}`
Key(top, outerwear, bottom, shoes) ==
  top.id \o "-" \o (IF outerwear = Null THEN "none" ELSE outerwear.id)
         \o "-" \o bottom.id \o "-" \o shoes.id

Candidate(top, outerwear, bottom, shoes, score) ==
  [top |-> top, outerwear |-> outerwear, bottom |-> bottom, shoes |-> shoes,
   score |-> score]

\* insertion of c into a list sorted by score descending, after its equals
RECURSIVE InsertDesc(_, _)
InsertDesc(s, c) ==
  IF s = <<>> THEN <<c>>
  ELSE IF Head(s).score >= c.score THEN <<Head(s)>> \o InsertDesc(Tail(s), c)
  ELSE <<c>> \o s

\* mutant: the list is left in push order
SortDescNone(s) == s

\* candidates.sort((a, b) => b.score - a.score): a stable sort
RECURSIVE SortDesc(_)
SortDesc(s) ==
  IF s = <<>> THEN <<>>
  ELSE InsertDesc(SortDesc(SubSeq(s, 1, Len(s) - 1)), s[Len(s)])

\* mutant: the list is returned whole
SliceAll(s, n) == s

\* candidates.slice(0, count) for a positive count
Slice(s, n) == SubSeq(s, 1, Min(n, Len(s)))

\* mutant: the loop has no budget of attempts
LoopGuardNoBudget == Len(candidates) < maxCombos

\* i < maxCombos * 3 && candidates.length < maxCombos
LoopGuard == i < maxCombos * 3 /\ Len(candidates) < maxCombos

\* mutant: an empty Outerwear partition also returns early
AnyRequiredEmptyOrOuterwear ==
  tops = {} \/ bottoms = {} \/ shoesItems = {} \/ outerwearItems = {}

\* tops.length === 0 || bottoms.length === 0 || shoesItems.length === 0
AnyRequiredEmpty == tops = {} \/ bottoms = {} \/ shoesItems = {}

\* mutant: the key is never recorded
SeenAddNothing(key) == seen

\* seen.add(key)
SeenAdd(key) == seen \cup {key}

\* mutant: the key set of the previous call is taken over
NewSeenStale == seen

\* new Set<string>()
NewSeen == {}

\* mutant: outerwear is included on the random outcome alone
includeOuterwearRandomOnly(random) == outerwearItems # {} /\ random

\* includeOuterwear, random being the outcome of Math.random() < 0.4
includeOuterwear(random) ==
  /\ outerwearItems # {}
  /\ (ctx.weather = "cold" \/ ctx.weather = "cool" \/ random)

\* mutant: only scores above one half are kept
IsKeptAboveHalf(score) == score > 50 * One

\* if (score > 0)
IsKept(score) == score > 0

\* the combination of a draw: the four items, Null for no outerwear
Combination(top, outerwear, bottom, shoes) == <<top, outerwear, bottom, shoes>>

EarlyReturn ==
  /\ pc = "start"
  /\ AnyRequiredEmpty
  /\ result' = <<>>
  /\ pc' = "done"
  /\ UNCHANGED <<drawn, wx, ui, weight, items, ctx, count, i, seen, candidates, outfit, scored>>

EnterLoop ==
  /\ pc = "start"
  /\ ~AnyRequiredEmpty
  /\ candidates' = <<>>
  /\ seen' = NewSeen
  /\ drawn' = {}
  /\ i' = 0
  /\ pc' = "loop"
  /\ UNCHANGED <<wx, ui, weight, items, ctx, count, result, outfit, scored>>

\* one iteration of the sampling loop; random is the outcome of
\* Math.random() < 0.4
Draw ==
  /\ pc = "loop"
  /\ LoopGuard
  /\ \E top \in tops, bottom \in bottoms, shoes \in shoesItems, random \in BOOLEAN :
       \E outerwear \in (IF includeOuterwear(random) THEN outerwearItems ELSE {Null}) :
         LET key   == Key(top, outerwear, bottom, shoes)
             score == scoreOutfit(top, outerwear, bottom, shoes, ctx)
         IN /\ drawn' = drawn \cup {Combination(top, outerwear, bottom, shoes)}
            /\ IF key \in seen
               THEN UNCHANGED <<seen, candidates>>
               ELSE /\ seen' = SeenAdd(key)
                    /\ candidates' =
                         IF IsKept(score)
                         THEN Append(candidates,
                                     Candidate(top, outerwear, bottom, shoes, score))
                         ELSE candidates
  /\ i' = i + 1
  /\ UNCHANGED <<wx, ui, weight, pc, items, ctx, count, result, outfit, scored>>

Finish ==
  /\ pc = "loop"
  /\ ~LoopGuard
  /\ candidates' = SortDesc(candidates)
  /\ result' = Slice(candidates', count)
  /\ pc' = "done"
  /\ UNCHANGED <<drawn, wx, ui, weight, items, ctx, count, i, seen, outfit, scored>>

InitGen ==
  /\ weight = WEIGHT
  /\ pc = "start"
  /\ items \in Wardrobes
  /\ ctx \in GenContexts
  /\ count \in Counts
  /\ i = 0
  /\ seen = {}
  /\ drawn = {}
  /\ candidates = <<>>
  /\ result = <<>>
  /\ outfit = Null
  /\ scored = Null
  /\ wx = Null
  /\ ui = Null

NextGen == EarlyReturn \/ EnterLoop \/ Draw \/ Finish

SpecGen == InitGen /\ [][NextGen]_vars

\* calls on three wardrobes under every category, nothing else set
FairWardrobes == {{T1, T2, B1, S1, O1}, {T1, T2, B1, S1}, {T1, S1}}

InitGenFair ==
  /\ InitGen
  /\ items \in FairWardrobes
  /\ ctx \in { Context(<<>>, w, <<>>, NoOccasion, <<>>) :
                 w \in TemperatureCategories \cup {NoWeather} }

\* a call that has started keeps running: the function is straight-line code
\* and a loop, nothing in it waits
SpecGenFair == InitGenFair /\ [][NextGen]_vars /\ WF_vars(NextGen)

(***************************************************************************)
(* Calls on wardrobes whose ids are arbitrary strings                      *)
(***************************************************************************)
\* items with ids that contain the separator of the key, or are its word for
\* no outerwear
KA  == Item("a", "T-Shirt", <<>>)
KAB == Item("a-b", "Polo", <<>>)
KBC == Item("b-c", "Sweater", <<>>)
KC  == Item("c", "Crewneck", <<>>)
KN  == Item("none", "Jacket", <<>>)
KD  == Item("d", "Jeans", <<>>)
KE  == Item("e", "Shoes", <<>>)

KeyWardrobes == {{KA, KAB, KBC, KC, KD, KE}, {KA, KN, KD, KE}, {KA, KE}}

InitKeys ==
  /\ weight = WEIGHT
  /\ pc = "start"
  /\ items \in KeyWardrobes
  /\ ctx \in {NoContext, Context(<<>>, "cool", <<>>, NoOccasion, <<>>)}
  /\ count = 1
  /\ i = 0
  /\ seen = {}
  /\ drawn = {}
  /\ candidates = <<>>
  /\ result = <<>>
  /\ outfit = Null
  /\ scored = Null
  /\ wx = Null
  /\ ui = Null

SpecKeys == InitKeys /\ [][NextGen]_vars

(***************************************************************************)
(* Successive calls of generateScoredOutfits                               *)
(***************************************************************************)
\* the caller calls again with the same arguments; the locals of the call
\* that returned are garbage until the new call initialises its own
CallAgain ==
  /\ pc = "done"
  /\ pc' = "start"
  /\ result' = <<>>
  /\ UNCHANGED <<drawn, wx, ui, weight, items, ctx, count, i, seen, candidates, outfit, scored>>

NextCalls == NextGen \/ CallAgain

SpecCalls == InitGen /\ [][NextCalls]_vars

(***************************************************************************)
(* Scoring on its own                                                      *)
(***************************************************************************)
Score ==
  /\ pc = "score"
  /\ scored' =
       [ch |-> colorHarmonyScore(outfit.top, outfit.bottom, outfit.outerwear,
                                 ctx.likedCombinations),
        ws |-> weatherScore(outfit.top, outfit.bottom, outfit.outerwear, ctx.weather),
        vs |-> varietyScore(outfit.top, outfit.bottom, outfit.shoes,
                            outfit.outerwear, ctx.recentWears),
        os |-> occasionScore(outfit.top, outfit.bottom, outfit.outerwear,
                             ctx.occasion),
        cs |-> comfortScore(outfit.top, outfit.bottom, outfit.shoes,
                            ctx.ratedOutfits),
        total |-> scoreOutfit(outfit.top, outfit.outerwear, outfit.bottom,
                              outfit.shoes, ctx)]
  /\ pc' = "scored"
  /\ UNCHANGED <<drawn, wx, ui, weight, items, ctx, count, i, seen, candidates, result, outfit>>

InitScore ==
  /\ weight = WEIGHT
  /\ pc = "score"
  /\ outfit \in Outfits
  /\ ctx \in ScoreContexts
  /\ scored = Null
  /\ items = {}
  /\ count = 1
  /\ i = 0
  /\ seen = {}
  /\ drawn = {}
  /\ candidates = <<>>
  /\ result = <<>>
  /\ wx = Null
  /\ ui = Null

NextScore == Score

SpecScore == InitScore /\ [][NextScore]_vars

(***************************************************************************)
(* Both entry points                                                       *)
(***************************************************************************)
Init == InitGen \/ InitScore

Next == NextGen \/ NextScore

Spec == Init /\ [][Next]_vars

(***************************************************************************)
(* Weather classifier (lib/weatherApi)                                     *)
(***************************************************************************)
TEMPERATURE_THRESHOLDS == [COLD |-> 45, COOL |-> 65, WARM |-> 80]

\* mutant: the last two answers are exchanged
getTemperatureCategorySwapped(temp) ==
  IF temp < TEMPERATURE_THRESHOLDS.COLD THEN "cold"
  ELSE IF temp < TEMPERATURE_THRESHOLDS.COOL THEN "cool"
  ELSE IF temp < TEMPERATURE_THRESHOLDS.WARM THEN "hot"
  ELSE "warm"

getTemperatureCategory(temp) ==
  IF temp < TEMPERATURE_THRESHOLDS.COLD THEN "cold"
  ELSE IF temp < TEMPERATURE_THRESHOLDS.COOL THEN "cool"
  ELSE IF temp < TEMPERATURE_THRESHOLDS.WARM THEN "warm"
  ELSE "hot"

\* the temperatures classified: whole degrees, as the caller rounds the
\* forecast high before classifying it
Temperatures ==
  (TEMPERATURE_THRESHOLDS.COLD - MaxTempSpan) .. (TEMPERATURE_THRESHOLDS.WARM + MaxTempSpan)

\* two calls of getTemperatureCategory
Classify ==
  /\ pc = "classify"
  /\ wx' = [wx EXCEPT !.category = <<getTemperatureCategory(wx.temp[1]),
                                      getTemperatureCategory(wx.temp[2])>>]
  /\ pc' = "classified"
  /\ UNCHANGED <<drawn, ui, weight, items, ctx, count, i, seen, candidates, result,
                 outfit, scored>>

InitWeather ==
  /\ weight = WEIGHT
  /\ pc = "classify"
  /\ wx \in { [temp |-> <<a, b>>, category |-> <<"", "">>] :
                a \in Temperatures, b \in Temperatures }
  /\ ui = Null
  /\ items = {}
  /\ ctx = NoContext
  /\ count = 1
  /\ i = 0
  /\ seen = {}
  /\ drawn = {}
  /\ candidates = <<>>
  /\ result = <<>>
  /\ outfit = Null
  /\ scored = Null

NextWeather == Classify

SpecWeather == InitWeather /\ [][NextWeather]_vars

(***************************************************************************)
(* Outfit generator component (components/OutfitGenerator)                 *)
(*                                                                         *)
(* ui holds the component's state after its data has loaded.  A handler    *)
(* runs to completion before the next event; pickOutfit spans several      *)
(* steps because it runs the sampling loop of generateScoredOutfits, and   *)
(* no other handler is enabled until it has returned.  pickOutfit is       *)
(* memoised on [items, liked, tempCategory, recentWears, selectedOccasion, *)
(* ratedOutfits]: the applyOutfit it calls is the one of the render that   *)
(* last changed one of these, and ui.closure holds the lock values that    *)
(* applyOutfit closed over.  cycleNext is re-created by every render and   *)
(* sees the current lock values.                                           *)
(***************************************************************************)
NO_VALID_OUTFITS ==
  "No valid outfits found. Try adding more items or adjusting your preferences."

Locks(t, b, s) == [lockedTop |-> t, lockedBottom |-> b, lockedShoes |-> s]

\* the lock values of the current render
CurrentLocks(u) == Locks(u.lockedTop, u.lockedBottom, u.lockedShoes)

\* applyOutfit(candidate) of a render whose lock values are locks
applyOutfit(u, candidate, locks) ==
  [u EXCEPT
     !.top       = IF locks.lockedTop THEN @ ELSE candidate.top,
     !.outerwear = IF locks.lockedTop THEN @ ELSE candidate.outerwear,
     !.bottom    = IF locks.lockedBottom THEN @ ELSE candidate.bottom,
     !.shoes     = IF locks.lockedShoes THEN @ ELSE candidate.shoes]

\* mutant: Next stays on the result it shows
NextIndexStay(index, n) == index

\* (resultIndex + 1) % scoredResults.length
NextIndex(index, n) == (index + 1) % n

\* wardrobes, categories and occasions of the component
UIWardrobes == {{T1, T2, B1, S1}, {T1, S1}}
UICategories == {NoWeather}
UIOccasions == {NoOccasion, "Casual"}

\* onToggleLock of the three slots
toggleLockTop ==
  /\ pc = "idle"
  /\ ui' = [ui EXCEPT !.lockedTop = ~@]
  /\ UNCHANGED <<drawn, wx, weight, pc, items, ctx, count, i, seen, candidates, result,
                 outfit, scored>>

toggleLockBottom ==
  /\ pc = "idle"
  /\ ui' = [ui EXCEPT !.lockedBottom = ~@]
  /\ UNCHANGED <<drawn, wx, weight, pc, items, ctx, count, i, seen, candidates, result,
                 outfit, scored>>

toggleLockShoes ==
  /\ pc = "idle"
  /\ ui' = [ui EXCEPT !.lockedShoes = ~@]
  /\ UNCHANGED <<drawn, wx, weight, pc, items, ctx, count, i, seen, candidates, result,
                 outfit, scored>>

\* an occasion chip: a changed occasion re-creates pickOutfit in the render
\* that follows, over the lock values of that render
setSelectedOccasion ==
  /\ pc = "idle"
  /\ \E occ \in UIOccasions :
       /\ occ # ui.selectedOccasion
       /\ ui' = [ui EXCEPT !.selectedOccasion = occ, !.closure = CurrentLocks(ui)]
  /\ UNCHANGED <<drawn, wx, weight, pc, items, ctx, count, i, seen, candidates, result,
                 outfit, scored>>

\* Generate: pickOutfit up to its call of generateScoredOutfits(items, ..., 10)
pickOutfit ==
  /\ pc = "idle"
  /\ ui' = [ui EXCEPT !.error = ""]
  /\ ctx' = Context(ui.liked, ui.tempCategory, ui.recentWears, ui.selectedOccasion,
                    ui.ratedOutfits)
  /\ count' = 10
  /\ pc' = "start"
  /\ UNCHANGED <<drawn, wx, weight, items, i, seen, candidates, result, outfit, scored>>

\* mutant: the empty result also clears the results shown so far
reportNoOutfitsClearing(u) ==
  [u EXCEPT !.error = NO_VALID_OUTFITS, !.scoredResults = <<>>, !.resultIndex = 0]

\* if (results.length === 0) { setError(...); return; }
reportNoOutfits(u) == [u EXCEPT !.error = NO_VALID_OUTFITS]

\* pickOutfit from the return of generateScoredOutfits on; the locals of the
\* call are gone with it
pickOutfitReturn ==
  /\ pc = "done"
  /\ ui' = IF Len(result) = 0
           THEN reportNoOutfits(ui)
           ELSE applyOutfit([ui EXCEPT !.scoredResults = result, !.resultIndex = 0],
                            result[1], ui.closure)
  /\ pc' = "idle"
  /\ i' = 0
  /\ seen' = {}
  /\ drawn' = {}
  /\ candidates' = <<>>
  /\ result' = <<>>
  /\ UNCHANGED <<wx, weight, items, ctx, count, outfit, scored>>

\* Next
cycleNext ==
  /\ pc = "idle"
  /\ IF Len(ui.scoredResults) = 0
     THEN UNCHANGED ui
     ELSE LET next == NextIndex(ui.resultIndex, Len(ui.scoredResults))
          IN ui' = applyOutfit([ui EXCEPT !.resultIndex = next],
                               ui.scoredResults[next + 1], CurrentLocks(ui))
  /\ UNCHANGED <<drawn, wx, weight, pc, items, ctx, count, i, seen, candidates, result,
                 outfit, scored>>

InitUI ==
  /\ weight = WEIGHT
  /\ pc = "idle"
  /\ items \in UIWardrobes
  /\ \E w \in UICategories :
       ui = [liked |-> <<>>, tempCategory |-> w, recentWears |-> <<>>,
             ratedOutfits |-> <<>>, selectedOccasion |-> NoOccasion,
             top |-> Null, outerwear |-> Null, bottom |-> Null, shoes |-> Null,
             scoredResults |-> <<>>, resultIndex |-> 0,
             lockedTop |-> FALSE, lockedBottom |-> FALSE, lockedShoes |-> FALSE,
             error |-> "",
             closure |-> Locks(FALSE, FALSE, FALSE)]
  /\ ctx = NoContext
  /\ count = 10
  /\ i = 0
  /\ seen = {}
  /\ drawn = {}
  /\ candidates = <<>>
  /\ result = <<>>
  /\ outfit = Null
  /\ scored = Null
  /\ wx = Null

NextUI ==
  \/ toggleLockTop \/ toggleLockBottom \/ toggleLockShoes
  \/ setSelectedOccasion
  \/ pickOutfit \/ EarlyReturn \/ EnterLoop \/ Draw \/ Finish \/ pickOutfitReturn
  \/ cycleNext

SpecUI == InitUI /\ [][NextUI]_vars

(***************************************************************************)
(* The component across a reload of its data.  The effect that loads the   *)
(* data runs again when the user object changes; SpecUI above is the       *)
(* component between two loads.                                            *)
(***************************************************************************)
\* wardrobes of the reload runs, and the categories a later forecast gives
ReloadWardrobes == {{T1, B1, S1}, {T1, S1}}
FetchedCategories == {"cold"}

InitUIReload ==
  /\ weight = WEIGHT
  /\ pc = "idle"
  /\ items \in ReloadWardrobes
  /\ ui = [liked |-> <<>>, tempCategory |-> NoWeather, recentWears |-> <<>>,
           ratedOutfits |-> <<>>, selectedOccasion |-> NoOccasion,
           top |-> Null, outerwear |-> Null, bottom |-> Null, shoes |-> Null,
           scoredResults |-> <<>>, resultIndex |-> 0,
           lockedTop |-> FALSE, lockedBottom |-> FALSE, lockedShoes |-> FALSE,
           error |-> "",
           closure |-> Locks(FALSE, FALSE, FALSE)]
  /\ ctx = NoContext
  /\ count = 10
  /\ i = 0
  /\ seen = {}
  /\ drawn = {}
  /\ candidates = <<>>
  /\ result = <<>>
  /\ outfit = Null
  /\ scored = Null
  /\ wx = Null

\* fetchAll: Generate is disabled from its start to its end, the items arrive
\* as a new array (so pickOutfit is re-created over the lock values of that
\* render), and the category is set when a forecast came
fetchAll ==
  /\ pc = "idle"
  /\ \E wd \in FetchedCategories \cup {NoWeather} :
       ui' = [ui EXCEPT !.tempCategory = IF wd # NoWeather THEN wd ELSE @,
                        !.closure = CurrentLocks(ui)]
  /\ UNCHANGED <<drawn, wx, weight, pc, items, ctx, count, i, seen, candidates, result,
                 outfit, scored>>

NextUIReload == NextUI \/ fetchAll

SpecUIReload == InitUIReload /\ [][NextUIReload]_vars

(***************************************************************************)
(* Properties                                                              *)
(***************************************************************************)
Range(s) == {s[k] : k \in 1..Len(s)}

\* the (top.id, outerwear.id or null, bottom.id, shoes.id) tuples of a and b agree
SameTuple(a, b) ==
  /\ a.top.id = b.top.id
  /\ (a.outerwear = Null) = (b.outerwear = Null)
  /\ (a.outerwear # Null /\ b.outerwear # Null => a.outerwear.id = b.outerwear.id)
  /\ a.bottom.id = b.bottom.id
  /\ a.shoes.id = b.shoes.id

\* the blockedIn set of a type, empty for a type without rules
BlockedIn(type) ==
  IF type \in DOMAIN clothingWeatherRules
  THEN clothingWeatherRules[type].blockedIn ELSE {}

\* top, bottom or a present outerwear is blocked in category w
HasBlocked(top, outerwear, bottom, w) ==
  \/ w \in BlockedIn(top.type)
  \/ w \in BlockedIn(bottom.type)
  \/ (outerwear # Null /\ w \in BlockedIn(outerwear.type))

\* C1: the list returned by generateScoredOutfits never holds two candidates
\* with the same (top.id, outerwear.id or null, bottom.id, shoes.id) tuple.
C1_NoDuplicates ==
  \A a, b \in 1..Len(result) : a # b => ~SameTuple(result[a], result[b])

\* a call returned two candidates although some draw repeated a combination
C1_Witness ==
  pc = "done" /\ Len(result) >= 2 /\ i > Cardinality(seen)

\* C2: with a category supplied, no returned (or kept) candidate has a top,
\* bottom or outerwear blocked in that category, and scoreOutfit returns 0 for
\* every outfit with such an item, whatever the other four scorers return.
C2_HardRejection ==
  /\ ctx.weather # NoWeather =>
       \A c \in Range(result) \cup Range(candidates) :
          ~HasBlocked(c.top, c.outerwear, c.bottom, ctx.weather)
  /\ (pc = "scored" /\ ctx.weather # NoWeather
        /\ HasBlocked(outfit.top, outfit.outerwear, outfit.bottom, ctx.weather))
       => scored.total = 0

\* a call drew a blocked combination, dropped it and still returned a candidate
C2_Witness ==
  /\ pc = "done" /\ ctx.weather # NoWeather /\ Len(result) > 0
  /\ \E t \in tops, b \in bottoms, s \in shoesItems, o \in outerwearItems \cup {Null} :
        Key(t, o, b, s) \in seen /\ HasBlocked(t, o, b, ctx.weather)

\* C3: the returned list has at most count entries and at most
\* min(|tops| x |bottoms| x |shoes| x (|outerwear| + 1), 500) entries.
C3_BoundedOutput ==
  LET n(section) == Cardinality({it \in items : SectionOf(it.type) = section})
      cap == Min(n("Tops") * n("Bottoms") * n("Shoes") * (n("Outerwear") + 1), 500)
  IN Len(result) <= count /\ Len(result) <= cap

\* a call kept more candidates than were asked for and returned count of them
C3_Witness ==
  pc = "done" /\ Len(candidates) > count /\ Len(result) = count

\* C4: with no Tops, no Bottoms or no Shoes item the call returns [] without a
\* single draw; with those three present the loop is entered also when there is
\* no Outerwear item, and an empty result then means that every combination
\* drawn had a weather-blocked top or bottom.
C4_EmptyShortCircuit ==
  LET n(section) == Cardinality({it \in items : SectionOf(it.type) = section})
  IN pc = "done" =>
       /\ (n("Tops") = 0 \/ n("Bottoms") = 0 \/ n("Shoes") = 0)
            => (result = <<>> /\ i = 0 /\ seen = {} /\ candidates = <<>>)
       /\ (n("Tops") > 0 /\ n("Bottoms") > 0 /\ n("Shoes") > 0 /\ n("Outerwear") = 0)
            => /\ i > 0
               /\ result = <<>> =>
                    /\ ctx.weather # NoWeather
                    /\ \A t \in tops, b \in bottoms, s \in shoesItems :
                          Key(t, Null, b, s) \in seen
                            => HasBlocked(t, Null, b, ctx.weather)

\* a call on a wardrobe with tops and shoes but no bottoms has returned
C4_Witness ==
  pc = "done" /\ tops # {} /\ shoesItems # {} /\ bottoms = {} /\ result = <<>>

\* C5: the returned list is ordered by score, highest first, and holds the
\* count highest-scoring of the candidates the loop kept.
C5_SortedTopK ==
  pc = "done" =>
    /\ \A a, b \in 1..Len(result) : a < b => result[a].score >= result[b].score
    /\ Len(result) = Min(count, Len(candidates))
    /\ Range(result) \subseteq Range(candidates)
    /\ \A c \in Range(candidates) \ Range(result) :
          \A r \in Range(result) : c.score <= r.score

\* a call kept candidates of different scores and returned fewer than it kept
C5_Witness ==
  /\ pc = "done" /\ 0 < Len(result) /\ Len(result) < Len(candidates)
  /\ \E c \in Range(candidates) : c.score < result[1].score

\* an aggregate score given in hundredths
Hundredths(n) == n * One

\* The weighted sum 0.30 ch + 0.25 ws + 0.20 vs + 0.15 os + 0.10 cs of a
\* scored outfit that is not weather hard-rejected.
WeightedSumHolds ==
  (pc = "scored"
     /\ ~(ctx.weather # NoWeather
            /\ HasBlocked(outfit.top, outfit.outerwear, outfit.bottom, ctx.weather)))
    => scored.total = 30 * scored.ch + 25 * scored.ws + 20 * scored.vs
                        + 15 * scored.os + 10 * scored.cs

\* top color blue, bottom color black, liked = [(blue, black)], nothing else
IsBlueBlackExample ==
  /\ pc = "scored"
  /\ Len(outfit.top.colors) > 0 /\ outfit.top.colors[1] = "blue"
  /\ Len(outfit.bottom.colors) > 0 /\ outfit.bottom.colors[1] = "black"
  /\ ctx = Context(<<Liked("blue", "black")>>, NoWeather, <<>>, NoOccasion, <<>>)

\* C6 as stated: the weighted sum, and the aggregate of the example is 0.80.
C6_Original ==
  WeightedSumHolds /\ (IsBlueBlackExample => scored.total = Hundredths(80))

\* C6: scoreOutfit of an outfit that is not hard-rejected is the weighted sum
\* 0.30 ch + 0.25 ws + 0.20 vs + 0.15 os + 0.10 cs, and the aggregate of the
\* blue/black example is 0.65 (0.30 + 0.125 + 0.10 + 0.075 + 0.05).
C6_WeightedSum ==
  WeightedSumHolds /\ (IsBlueBlackExample => scored.total = Hundredths(65))

\* the example has been scored with a color harmony of 1.0
C6_Witness == IsBlueBlackExample /\ scored.ch = One /\ outfit.outerwear = Null

\* C7: with no liked combinations, weather, occasion, recent or rated wears
\* every scorer returns 0.5, scoreOutfit returns 0.5 and every returned
\* candidate has score 0.5.
C7_NeutralDefaults ==
  ctx = NoContext =>
    /\ pc = "scored" =>
         /\ scored.ch = One \div 2 /\ scored.ws = One \div 2
         /\ scored.vs = One \div 2 /\ scored.os = One \div 2
         /\ scored.cs = One \div 2 /\ scored.total = Hundredths(50)
    /\ \A c \in Range(result) \cup Range(candidates) : c.score = Hundredths(50)

\* a call with the neutral context returned two candidates
C7_Witness == pc = "done" /\ ctx = NoContext /\ Len(result) >= 2

\* C9: the weights are 0.30, 0.25, 0.20, 0.15 and 0.10, sum to 1.0, and no
\* call changes them.
C9_WeightInvariant ==
  /\ weight = [COLOR_HARMONY |-> 30, WEATHER |-> 25, VARIETY |-> 20,
               OCCASION |-> 15, COMFORT |-> 10]
  /\ weight.COLOR_HARMONY + weight.WEATHER + weight.VARIETY + weight.OCCASION
       + weight.COMFORT = 100

\* a call that scored combinations with the weights has returned
C9_Witness == pc = "done" /\ Len(result) > 0 /\ weight = WEIGHT

\* C10: with ratings in 1..10 every scorer returns a value in [0,1], and so
\* does scoreOutfit; every returned candidate has a score in [0,1].
C10_ScoresInRange ==
  /\ pc = "scored" =>
       /\ scored.ch \in 0..One /\ scored.ws \in 0..One /\ scored.vs \in 0..One
       /\ scored.os \in 0..One /\ scored.cs \in 0..One
       /\ scored.total \in 0..Hundredths(100)
  /\ \A c \in Range(result) \cup Range(candidates) : c.score \in 0..Hundredths(100)

\* an outfit was scored whose weather fitness reached the cap of 1 while its
\* occasion fitness was 0
C10_Witness == pc = "scored" /\ scored.ws = One /\ scored.os = 0

\* C11: in every returned (or kept) candidate the top is an item of the
\* wardrobe whose type the taxonomy files under Tops, the bottom one filed under
\* Bottoms, the shoes one filed under Shoes, and the outerwear is null or an
\* item of the wardrobe filed under Outerwear; an item whose type the taxonomy
\* lacks is in no slot, and a call on a wardrobe holding one still returns.
C11_WellFormedCandidates ==
  LET Filed(it, section) ==
        /\ it \in items
        /\ it.type \in DOMAIN typeToSection
        /\ typeToSection[it.type] = section
  IN \A c \in Range(result) \cup Range(candidates) :
        /\ Filed(c.top, "Tops")
        /\ Filed(c.bottom, "Bottoms")
        /\ Filed(c.shoes, "Shoes")
        /\ c.outerwear = Null \/ Filed(c.outerwear, "Outerwear")

\* a call on a wardrobe with an item of unknown type returned a candidate with
\* outerwear
C11_Witness ==
  /\ pc = "done" /\ Len(result) > 0
  /\ \E it \in items : it.type \notin DOMAIN typeToSection
  /\ \E c \in Range(result) : c.outerwear # Null

\* the place of a category in the order cold < cool < warm < hot
CategoryRank(c) ==
  CASE c = "cold" -> 0 [] c = "cool" -> 1 [] c = "warm" -> 2 [] c = "hot" -> 3

\* C12: getTemperatureCategory answers for every temperature with one of
\* cold, cool, warm, hot, and it is monotone in the order cold < cool < warm <
\* hot: t1 <= t2 implies category(t1) <= category(t2).
C12_TotalMonotone ==
  pc = "classified" =>
    /\ wx.category[1] \in TemperatureCategories
    /\ wx.category[2] \in TemperatureCategories
    /\ wx.temp[1] <= wx.temp[2]
         => CategoryRank(wx.category[1]) <= CategoryRank(wx.category[2])
    /\ wx.temp[1] = wx.temp[2] => wx.category[1] = wx.category[2]

\* a lower and a higher temperature were classified two categories apart
C12_Witness ==
  /\ pc = "classified" /\ wx.temp[1] < wx.temp[2]
  /\ CategoryRank(wx.category[2]) - CategoryRank(wx.category[1]) >= 2

\* C13: cold is returned for temperatures below 45, cool within 45-65, warm
\* within 65-80 and hot above 80; cold is returned only for temperatures
\* strictly below 45 and hot only for temperatures strictly above 80.
C13_Thresholds ==
  pc = "classified" =>
    \A k \in 1..2 :
       LET t == wx.temp[k]
           c == wx.category[k]
       IN /\ t < 45 => c = "cold"
          /\ t > 80 => c = "hot"
          /\ c = "cold" => t < 45
          /\ c = "cool" => 45 <= t /\ t <= 65
          /\ c = "warm" => 65 <= t /\ t <= 80
          /\ c = "hot"  => t > 80

\* the number of slots of the scored outfit (outerwear when present) whose
\* item id is in some slot of some recent wear
ReusedSlots ==
  LET Worn(it) ==
        \E k \in 1..Len(ctx.recentWears) :
           it.id \in {ctx.recentWears[k].top_id, ctx.recentWears[k].bottom_id,
                      ctx.recentWears[k].shoes_id, ctx.recentWears[k].outerwear_id}
      One01(b) == IF b THEN 1 ELSE 0
  IN One01(Worn(outfit.top)) + One01(Worn(outfit.bottom)) + One01(Worn(outfit.shoes))
       + One01(outfit.outerwear # Null /\ Worn(outfit.outerwear))

\* C14: with a non-empty recent-wears list varietyScore is max(0, 1 - 0.25 n),
\* n being the number of the outfit's item ids (top, bottom, shoes, and
\* outerwear when present) found in any slot of any recent wear; top, bottom
\* and shoes all reused without outerwear give 0.25, four reused items give 0.
C14_VarietyFormula ==
  (pc = "scored" /\ Len(ctx.recentWears) > 0) =>
    /\ 4 * scored.vs = Max(0, 4 * One - ReusedSlots * One)
    /\ (outfit.outerwear = Null /\ ReusedSlots = 3) => 4 * scored.vs = One
    /\ ReusedSlots = 4 => scored.vs = 0

\* an outfit whose four items were all worn recently was scored
C14_Witness ==
  /\ pc = "scored" /\ Len(ctx.recentWears) > 0
  /\ outfit.outerwear # Null /\ outfit.outerwear # outfit.top
  /\ ReusedSlots = 4 /\ scored.vs = 0

\* what a running or returned call holds is made of its own draws: at most
\* one key per iteration, and the kept candidates are distinct drawn
\* combinations of the wardrobe scored under the context of the call
OwnDrawsOnly ==
  pc \in {"loop", "done"} =>
    /\ Cardinality(seen) <= i
    /\ Len(candidates) <= Cardinality(seen)
    /\ \A c \in Range(candidates) \cup Range(result) :
          /\ Key(c.top, c.outerwear, c.bottom, c.shoes) \in seen
          /\ c.score = scoreOutfit(c.top, c.outerwear, c.bottom, c.shoes, ctx)

\* no step of a call assigns to an argument
ArgumentsKept ==
  items' = items /\ ctx' = ctx /\ count' = count

\* C15: generateScoredOutfits leaves the items, the context lists and the
\* count as they were passed, and keeps no state between calls: whatever a
\* call holds and returns comes from its own arguments and its own draws,
\* whatever earlier calls drew.
C15_NoSideEffects ==
  [][ArgumentsKept]_vars /\ []OwnDrawsOnly

\* a further call begins after one that drew and kept combinations
C15_Witness ==
  pc = "start" /\ i > 0 /\ seen # {} /\ candidates # <<>>

\* the item the Top slot shows: top || outerwear
DisplayedTop(u) == IF u.top # Null THEN u.top ELSE u.outerwear

\* C16: in the outfit generator, whatever lock toggles, occasion changes,
\* Generate and Next came before, a slot that is locked (top, bottom, shoes)
\* keeps the item it shows across every Generate and every Next.
C16_LockedSlotsKept ==
  [][ /\ ui.lockedTop => DisplayedTop(ui') = DisplayedTop(ui)
      /\ ui.lockedBottom => ui'.bottom = ui.bottom
      /\ ui.lockedShoes => ui'.shoes = ui.shoes ]_vars

\* the index stays inside a non-empty result list
IndexInRange ==
  Len(ui.scoredResults) > 0 =>
    0 <= ui.resultIndex /\ ui.resultIndex < Len(ui.scoredResults)

\* what a step of cycleNext does to the results and the index
CycleNextEffect ==
  cycleNext =>
    /\ ui'.scoredResults = ui.scoredResults
    /\ Len(ui.scoredResults) = 0 => ui' = ui
    /\ Len(ui.scoredResults) > 0 =>
         ui'.resultIndex = (ui.resultIndex + 1) % Len(ui.scoredResults)

\* C17: cycleNext leaves scoredResults as it is and sets resultIndex to
\* (resultIndex + 1) mod |scoredResults|, from the last result back to the
\* first; 0 <= resultIndex < |scoredResults| whenever scoredResults is not
\* empty, and cycleNext changes nothing when it is empty.
C17_CycleNext ==
  [][CycleNextEffect]_vars /\ []IndexInRange

\* Next has moved to the last of two results
C17_Witness ==
  pc = "idle" /\ Len(ui.scoredResults) = 2 /\ ui.resultIndex = 1

\* the item has a first color
HasPrimary(it) == Len(it.colors) > 0 /\ it.colors[1] # ""

\* some liked combination is (a, b) in this order, whatever the case
LikedInOrder(a, b) ==
  \E k \in 1..Len(ctx.likedCombinations) :
     /\ toLowerCase(ctx.likedCombinations[k].topColor) = toLowerCase(a)
     /\ toLowerCase(ctx.likedCombinations[k].bottomColor) = toLowerCase(b)

\* 1.0 or 0.3 by the liked (top, bottom) pair of the scored outfit
BaseHarmony ==
  IF LikedInOrder(outfit.top.colors[1], outfit.bottom.colors[1])
  THEN One ELSE (3 * One) \div 10

\* C18: colorHarmonyScore is 0.5 when the liked list is empty; otherwise 0.3
\* when the top or the bottom has no first color, and otherwise it starts from
\* base 1.0 when (first color of the top, first color of the bottom) is a
\* liked combination in that order, compared without regard to case, and from
\* base 0.3 when it is not; only the first color of an item counts.
C18_ColorHarmonyBase ==
  pc = "scored" =>
    /\ Len(ctx.likedCombinations) = 0 => scored.ch = One \div 2
    /\ (Len(ctx.likedCombinations) > 0
          /\ ~(HasPrimary(outfit.top) /\ HasPrimary(outfit.bottom)))
         => scored.ch = (3 * One) \div 10
    /\ (Len(ctx.likedCombinations) > 0
          /\ HasPrimary(outfit.top) /\ HasPrimary(outfit.bottom))
         => /\ scored.ch >= BaseHarmony
            /\ outfit.outerwear = Null => scored.ch = BaseHarmony

\* an outfit was scored 1.0 on a liked pair spelled in another case, and its
\* top has a second color
C18_Witness ==
  /\ pc = "scored" /\ outfit.outerwear = Null /\ scored.ch = One
  /\ \/ /\ ctx.likedCombinations = <<Liked("Black", "Blue")>>
        /\ outfit.top.colors = <<"BLACK">> /\ outfit.bottom.colors = <<"Blue">>
     \/ /\ ctx.likedCombinations = <<Liked("blue", "black")>>
        /\ Len(outfit.top.colors) = 2 /\ outfit.top.colors[1] = "blue"

\* C19: with a non-empty liked list, a top and a bottom with a first color and
\* an outerwear with a first color, colorHarmonyScore adds 0.15, capped at
\* 1.0, exactly when (first color of the outerwear, first color of the top)
\* is a liked combination; the results are 0.3, 0.45, 0.5 and 1.0 only.
C19_OuterwearBonus ==
  pc = "scored" =>
    /\ (Len(ctx.likedCombinations) > 0
          /\ HasPrimary(outfit.top) /\ HasPrimary(outfit.bottom)
          /\ outfit.outerwear # Null /\ HasPrimary(outfit.outerwear))
         => scored.ch =
              IF LikedInOrder(outfit.outerwear.colors[1], outfit.top.colors[1])
              THEN Min(One, BaseHarmony + (15 * One) \div 100)
              ELSE BaseHarmony
    /\ scored.ch \in {(3 * One) \div 10, (45 * One) \div 100, One \div 2, One}

\* the bonus was added to a base of 1.0 and capped
C19_Witness ==
  /\ pc = "scored" /\ Len(ctx.likedCombinations) > 0
  /\ HasPrimary(outfit.top) /\ HasPrimary(outfit.bottom)
  /\ outfit.outerwear # Null /\ HasPrimary(outfit.outerwear)
  /\ LikedInOrder(outfit.outerwear.colors[1], outfit.top.colors[1])
  /\ BaseHarmony = One /\ scored.ch = One

\* the number of top, bottom and present outerwear of the scored outfit whose
\* type is suggested in the category of the context
SuggestedCount ==
  LET Sug(it) == /\ it # Null
                 /\ it.type \in DOMAIN clothingWeatherRules
                 /\ ctx.weather \in clothingWeatherRules[it.type].suggestedIn
      One01(b) == IF b THEN 1 ELSE 0
  IN One01(Sug(outfit.top)) + One01(Sug(outfit.bottom)) + One01(Sug(outfit.outerwear))

\* C20: weatherScore is 0.5 without a category; with a category and no
\* blocked item it is 0.5 + 0.15 per suggested top, bottom or outerwear,
\* - 0.3 when it is cold and there is no outerwear, + 0.1 when it is cold or
\* cool and there is outerwear, - 0.2 when it is hot and there is outerwear,
\* clamped to [0,1]; the shoes do not enter.
C20_WeatherFormula ==
  pc = "scored" =>
    /\ ctx.weather = NoWeather => scored.ws = One \div 2
    /\ (ctx.weather # NoWeather
          /\ ~HasBlocked(outfit.top, outfit.outerwear, outfit.bottom, ctx.weather))
         => LET has == outfit.outerwear # Null
                raw == 50 + 15 * SuggestedCount
                         - (IF ctx.weather = "cold" /\ ~has THEN 30 ELSE 0)
                         + (IF ctx.weather \in {"cold", "cool"} /\ has THEN 10 ELSE 0)
                         - (IF ctx.weather = "hot" /\ has THEN 20 ELSE 0)
            IN 100 * scored.ws = Max(0, Min(100, raw)) * One

\* outerwear that is not blocked was scored on a hot day and cost 0.2
C20_Witness ==
  /\ pc = "scored" /\ ctx.weather = "hot" /\ outfit.outerwear # Null
  /\ ~HasBlocked(outfit.top, outfit.outerwear, outfit.bottom, ctx.weather)
  /\ scored.ws < One \div 2

\* C21: with a category supplied weatherScore is 0 if and only if the top, the
\* bottom or a present outerwear is blocked in the category; without a blocked
\* item it is at least 0.2, and scoreOutfit then returns more than 0.
C21_ZeroIsSentinel ==
  (pc = "scored" /\ ctx.weather # NoWeather) =>
    LET blocked == HasBlocked(outfit.top, outfit.outerwear, outfit.bottom, ctx.weather)
    IN /\ scored.ws = 0 <=> blocked
       /\ ~blocked => (5 * scored.ws >= One /\ scored.total > 0)

\* an outfit without a blocked item was scored at the lowest weather fitness
C21_Witness ==
  /\ pc = "scored" /\ ctx.weather # NoWeather
  /\ ~HasBlocked(outfit.top, outfit.outerwear, outfit.bottom, ctx.weather)
  /\ 5 * scored.ws = One /\ scored.total > 0

\* the number of top_id, bottom_id, shoes_id of a wear that are present
PresentSlots(w) ==
  (IF w.top_id # "" THEN 1 ELSE 0) + (IF w.bottom_id # "" THEN 1 ELSE 0)
    + (IF w.shoes_id # "" THEN 1 ELSE 0)

\* the number of those that are the top, the bottom or the shoes scored
SharedSlots(w) ==
  LET mine == {outfit.top.id, outfit.bottom.id, outfit.shoes.id}
  IN (IF w.top_id \in mine THEN 1 ELSE 0) + (IF w.bottom_id \in mine THEN 1 ELSE 0)
       + (IF w.shoes_id \in mine THEN 1 ELSE 0)

\* comfort_rating if present, else rating if present, else 5
RatingOf(w) ==
  IF w.comfort_rating # NoRating THEN w.comfort_rating
  ELSE IF w.rating # NoRating THEN w.rating
  ELSE 5

\* the rated wears that share a slot with the scored outfit
MatchingWears == SelectSeq(ctx.ratedOutfits, LAMBDA w : SharedSlots(w) > 0)

\* 60 times the sum over the matching wears of (rating / 10) x shared / slots,
\* slots being 3 (byThree) or the number of present slots of the wear
RECURSIVE WeightedRatings(_, _)
WeightedRatings(ws, byThree) ==
  IF ws = <<>> THEN 0
  ELSE RatingOf(Head(ws)) * SharedSlots(Head(ws)) * One
         * (IF byThree THEN 2 ELSE 6 \div PresentSlots(Head(ws)))
       + WeightedRatings(Tail(ws), byThree)

\* C22 as stated: every rated wear is weighted by (shared ids) / 3, also a
\* wear in which one or two of top_id, bottom_id, shoes_id are absent.
C22_Original ==
  (pc = "scored" /\ Len(MatchingWears) > 0) =>
    60 * Len(MatchingWears) * scored.cs = WeightedRatings(MatchingWears, TRUE)

\* C22: comfortScore weights the rating of a rated wear by (number of ids
\* shared between {top.id, bottom.id, shoes.id} and the wear's top_id,
\* bottom_id, shoes_id) / (number of those three slots the wear has), which
\* is a third per shared id only for a wear with all three slots; the
\* outerwear_id of the wear is never compared.
C22_ComfortWeight ==
  (pc = "scored" /\ Len(MatchingWears) > 0) =>
    60 * Len(MatchingWears) * scored.cs = WeightedRatings(MatchingWears, FALSE)

\* an outfit was scored against a single rated wear that lacks a slot and
\* shares one
C22_Witness ==
  /\ pc = "scored" /\ Len(ctx.ratedOutfits) = 1 /\ Len(MatchingWears) = 1
  /\ PresentSlots(ctx.ratedOutfits[1]) < 3
  /\ ctx.ratedOutfits[1].outerwear_id # ""

\* C23: comfortScore is 0.5 when the rated list is empty or no rated wear
\* shares the top, the bottom or the shoes; otherwise it is the sum of the
\* weighted ratings of the wears that share one, divided by the number of
\* those wears, a rating being comfort_rating if present, else rating if
\* present, else 5, over 10; a wear that shares nothing enters neither the
\* sum nor the divisor.
C23_ComfortAverage ==
  pc = "scored" =>
    /\ Len(MatchingWears) = 0 => scored.cs = One \div 2
    /\ Len(MatchingWears) > 0 =>
         60 * Len(MatchingWears) * scored.cs = WeightedRatings(MatchingWears, FALSE)

\* an outfit was scored against two rated wears of which one shares nothing
\* and the other has a comfort rating that differs from its rating
C23_Witness ==
  /\ pc = "scored" /\ Len(ctx.ratedOutfits) = 2 /\ Len(MatchingWears) = 1
  /\ MatchingWears[1].comfort_rating # NoRating
  /\ MatchingWears[1].comfort_rating # MatchingWears[1].rating
  /\ scored.cs # One \div 2

\* the occasion checks the scored outfit passes: the top (of section Tops and
\* on the allow-list of tops), the bottom, and the outerwear when present
ChecksPassed ==
  LET rules == occasionRules[ctx.occasion]
      topOk == /\ outfit.top.type \in DOMAIN typeToSection
               /\ typeToSection[outfit.top.type] = "Tops"
               /\ outfit.top.type \in rules.tops
  IN (IF topOk THEN 1 ELSE 0)
       + (IF outfit.bottom.type \in rules.bottoms THEN 1 ELSE 0)
       + (IF outfit.outerwear # Null /\ outfit.outerwear.type \in rules.outerwear
          THEN 1 ELSE 0)

\* C24: with an occasion occasionScore is (checks passed) / (checks
\* evaluated): the top and the bottom check always, the outerwear check when
\* there is outerwear, so that two or three checks are evaluated and never
\* none; the top passes only as a type of section Tops on the occasion's
\* list of tops; the result is 0, 1/3, 1/2, 2/3 or 1 and the shoes do not
\* enter.  Without an occasion it is 0.5.
C24_OccasionRatio ==
  pc = "scored" =>
    /\ ctx.occasion = NoOccasion => scored.os = One \div 2
    /\ ctx.occasion # NoOccasion =>
         LET evaluated == IF outfit.outerwear # Null THEN 3 ELSE 2
         IN /\ evaluated * scored.os = ChecksPassed * One
            /\ scored.os \in {0, One \div 3, One \div 2, (2 * One) \div 3, One}

\* an outfit with outerwear passed two of its three checks
C24_Witness ==
  /\ pc = "scored" /\ ctx.occasion # NoOccasion /\ outfit.outerwear # Null
  /\ ChecksPassed = 2 /\ 3 * scored.os = 2 * One

\* min(|tops| x |bottoms| x |shoes| x (|outerwear| + 1), 500) of the wardrobe
Cap ==
  LET n(section) == Cardinality({it \in items : SectionOf(it.type) = section})
  IN Min(n("Tops") * n("Bottoms") * n("Shoes") * (n("Outerwear") + 1), 500)

\* the attempts made and the candidates kept stay within 3 x cap and cap
WithinBudget ==
  i <= 3 * Cap /\ 3 * Cap <= 1500 /\ Len(candidates) <= Cap

\* a draw is made only while fewer than cap candidates are kept and fewer
\* than 3 x cap attempts are made; it uses up one attempt, keeps at most one
\* more candidate, and keeps none when the combination was drawn before or
\* scores 0
DrawEffect ==
  (pc = "loop" /\ pc' = "loop") =>
    /\ i < 3 * Cap /\ Len(candidates) < Cap
    /\ i' = i + 1
    /\ Len(candidates') \in {Len(candidates), Len(candidates) + 1}
    /\ drawn' = drawn => candidates' = candidates
    /\ \A c \in drawn' \ drawn :
          scoreOutfit(c[1], c[2], c[3], c[4], ctx) = 0 => candidates' = candidates

\* the loop is left when cap candidates are kept or 3 x cap attempts are made
ExitEffect ==
  (pc = "loop" /\ pc' = "done") => (Len(candidates) = Cap \/ i = 3 * Cap)

\* C25: the sampling loop always terminates: it makes at most 3 x cap draws
\* (at most 1500) and stops as soon as cap candidates are kept; a draw that
\* is a duplicate or scores 0 uses up an attempt and keeps nothing.
C25_LoopTerminates ==
  /\ []WithinBudget
  /\ [][DrawEffect /\ ExitEffect]_vars
  /\ <>(pc = "done")

\* a call used up its whole budget of attempts without filling the cap
C25_Witness ==
  pc = "done" /\ i = 3 * Cap /\ i > 0 /\ Len(candidates) < Cap

\* C26: a draw is skipped as already seen only if an earlier draw of the call
\* had the same top, the same outerwear (or none, both), the same bottom and
\* the same shoes, whatever strings the ids are: a draw of a combination not
\* drawn before is never skipped.
C26_ExactTupleDedup ==
  [][ (pc = "loop" /\ pc' = "loop" /\ drawn' # drawn) => seen' # seen ]_vars

\* the outerwear of a drawn combination, Null for none
OuterwearOf(d) == d[2]

\* the category is cold or cool
ColdOrCool == ctx.weather = "cold" \/ ctx.weather = "cool"

\* C27: a draw has outerwear only if the wardrobe holds an Outerwear item, and
\* always has it when the category is cold or cool and the wardrobe holds one;
\* so every kept or returned candidate has outerwear in cold and cool when the
\* wardrobe holds an Outerwear item, and none when it holds no such item.
C27_OuterwearInclusion ==
  /\ \A d \in drawn :
        /\ OuterwearOf(d) # Null => outerwearItems # {}
        /\ ColdOrCool /\ outerwearItems # {} => OuterwearOf(d) # Null
  /\ \A c \in Range(result) \cup Range(candidates) :
        /\ ColdOrCool /\ outerwearItems # {} => c.outerwear # Null
        /\ outerwearItems = {} => c.outerwear = Null

\* a call in cold or cool on a wardrobe with an Outerwear item returned a
\* candidate
C27_Witness ==
  /\ pc = "done" /\ ColdOrCool
  /\ outerwearItems # {}
  /\ Len(result) > 0

\* C28: in hot no kept or returned candidate has outerwear: every type filed
\* under Outerwear is blocked in hot, so every draw with outerwear scores 0
\* and the penalty for outerwear in hot is in no returned score.
C28_NoOuterwearInHot ==
  /\ \A t \in DOMAIN typeToSection :
        typeToSection[t] = "Outerwear" => "hot" \in BlockedIn(t)
  /\ ctx.weather = "hot" =>
        /\ \A d \in drawn :
              OuterwearOf(d) # Null => scoreOutfit(d[1], d[2], d[3], d[4], ctx) = 0
        /\ \A c \in Range(result) \cup Range(candidates) : c.outerwear = Null

\* a call in hot drew a combination with outerwear and returned a candidate
C28_Witness ==
  /\ pc = "done" /\ ctx.weather = "hot"
  /\ \E d \in drawn : OuterwearOf(d) # Null
  /\ Len(result) > 0

\* the drawn combination d is among the kept candidates
IsAmongKept(d) ==
  \E c \in Range(candidates) :
    Combination(c.top, c.outerwear, c.bottom, c.shoes) = d

\* C29: a drawn combination is discarded exactly when the weather hard-rejects
\* it (wear ratings being 1..10 or absent): a combination that is not
\* rejected scores above 0, color harmony alone giving at least 0.09, and every
\* kept or returned candidate has a score above 0.
C29_DiscardIffRejected ==
  /\ \A d \in drawn :
        IsAmongKept(d) <=> ~HasBlocked(d[1], d[2], d[3], ctx.weather)
  /\ \A c \in Range(result) \cup Range(candidates) : c.score > 0
  /\ scored # Null =>
        /\ WEIGHT.COLOR_HARMONY * scored.ch >= 9 * One
        /\ scored.total > 0 <=>
              ~HasBlocked(outfit.top, outfit.outerwear, outfit.bottom, ctx.weather)

\* a call with a rated wear discarded a rejected combination and returned a
\* candidate whose score is at most one half
C29_Witness ==
  /\ pc = "done" /\ ctx.ratedOutfits # <<>>
  /\ \E d \in drawn : HasBlocked(d[1], d[2], d[3], ctx.weather)
  /\ \E c \in Range(result) : c.score <= 50 * One

\* C30: when generateScoredOutfits returns an empty list pickOutfit sets the
\* error to the 'No valid outfits found' message and leaves scoredResults,
\* resultIndex and the displayed top, outerwear, bottom and shoes (and every
\* other field) as they were before the call: the call itself clears only the
\* error, the generation touches no field, and the return sets only the error.
C30_EmptyResultOnlyError ==
  [][ /\ (pc = "idle" /\ pc' = "start") => ui' = [ui EXCEPT !.error = ""]
      /\ (pc \in {"start", "loop"}) => ui' = ui
      /\ (pc = "done" /\ result = <<>>) =>
            /\ pc' = "idle"
            /\ ui' = [ui EXCEPT !.error = NO_VALID_OUTFITS] ]_vars

\* an empty result was reported while the results and the outfit of an earlier
\* call are still shown
C30_Witness ==
  /\ pc = "idle"
  /\ ui.error = NO_VALID_OUTFITS
  /\ ui.scoredResults # <<>>
  /\ ui.top # Null /\ ui.bottom # Null /\ ui.shoes # Null

====
